---- MODULE Spec2Model ----
(***************************************************************************)
(* A model of PyCG's analysis driver (src/pycg/pycg.py), its import        *)
(* manager (src/pycg/machinery/imports.py) and its call-graph accumulator  *)
(* (src/pycg/machinery/callgraph.py).                                      *)
(*                                                                         *)
(* Four specifications share the module:                                   *)
(*   SpecCG   : a client calling CallGraph.add_node / add_edge             *)
(*   SpecConv : extract_state / has_converged over changing fact stores    *)
(*   SpecIM   : a client of ImportManager (the passes' calls)              *)
(*   SpecGen  : CallGraphGenerator.analyze() and do_pass()                 *)
(***************************************************************************)
EXTENDS Integers, Sequences, FiniteSets, TLC

(***************************************************************************)
(* Bounds of the model.                                                    *)
(***************************************************************************)
\* the longest provenance log (sum over all sources) the client builds
MaxLog == 2
\* the number of handle_import calls of one behaviour
MaxImports == 2
\* the number of install_hooks calls that may be outstanding at once
MaxNested == 2
\* the largest iteration cap (max_iter) a generator is constructed with
MaxIter == 2
\* the post-processing passes a generator without cap (max_iter < 0) is
\* followed through
MaxUncapped == 3

(***************************************************************************)
(* Values.  Python's "" is the empty string; NotAString stands for any     *)
(* value for which isinstance(name, str) is false.                         *)
(***************************************************************************)
NotAString == "<not-a-str>"
NodeNames == {"a", "b"}
NameArgs == NodeNames \cup {"", NotAString}
ModArgs == {"", "m1", "m2"}
\* the modules add_edge is called with
EdgeModArgs == {"", "m1"}
LineArgs == {-1, 7}
ExtModArgs == {"e"}

VARIABLES
    \* CallGraph (callgraph.py)
    cg,            \* self.cg: name -> set of destination names
    cg_extended,   \* self.cg_extended: name -> [dsts: log, meta: [modname]]
    modnames,      \* self.modnames: name -> declaring module
    firstMod,      \* history: name -> first non-empty module passed for it
    \* the fact stores and CallGraphGenerator's snapshot of them (pycg.py)
    facts,         \* def_manager, scope_manager and class_manager contents
    state,         \* self.state: None, or the last snapshot
    changed,       \* history: the fact stores changed since the last snapshot
    hc,            \* the last has_converged() call and what it returned
    \* ImportManager (imports.py) and the interpreter's import state
    import_graph,  \* self.import_graph: name -> [filename, imports]
    current_module,\* self.current_module
    input_file,    \* self.input_file
    mod_dir,       \* self.mod_dir
    old_path_hooks,\* self.old_path_hooks
    old_path,      \* self.old_path
    sys_path_hooks,\* sys.path_hooks
    sys_path,      \* sys.path
    sys_modules,   \* sys.modules (the names in it)
    importer_cache,\* sys.path_importer_cache
    imCall,        \* the last ImportManager call and, for handle_import and
                   \* create_node, its arguments and outcome
    installPending,\* history: an install_hooks not yet followed by remove_hooks
    nImports,      \* history: the number of handle_import calls made
    \* CallGraphGenerator (pycg.py)
    entry_points,  \* self.entry_points
    package,       \* self.package
    max_iter,      \* self.max_iter
    operation,     \* self.operation
    pc,            \* where analyze() / do_pass() stands
    stage,         \* the pass class of the do_pass under way
    ep,            \* do_pass: the index of the entry point the loop is at
    modules_analyzed, \* do_pass: the local set modules_analyzed
    iter_cnt,      \* analyze: iter_cnt
    key_errs,      \* self.key_errs: the findings of the key-error pass
    calls,         \* history: the calls the last step of analyze() made, in order
    postRuns       \* history: the number of do_pass(PostProcessor) calls

cgVars == <<cg, cg_extended, modnames, firstMod>>

convVars == <<facts, state, changed, hc>>

imVars == <<import_graph, current_module, input_file, mod_dir, old_path_hooks,
            old_path, sys_path_hooks, sys_path, sys_modules, importer_cache,
            imCall, installPending, nImports>>

genVars == <<entry_points, package, max_iter, operation, pc, stage, ep,
             modules_analyzed, iter_cnt, key_errs, calls, postRuns>>

vars == <<cgVars, convVars, imVars, genVars>>

otherThanCG == <<convVars, imVars, genVars>>
otherThanConv == <<cgVars, imVars, genVars>>
otherThanIM == <<cgVars, convVars, genVars>>
\* what analyze() does not touch: the import graph is written by the passes'
\* own calls of the import manager
otherThanGen == <<changed, hc, import_graph, current_module, input_file,
                  imCall, nImports>>
\* what the terminal passes write: the call graph and the key-error findings
outputs == <<cgVars, key_errs>>

(***************************************************************************)
(* CallGraph                                                               *)
(***************************************************************************)
Graph == [cg |-> cg, ext |-> cg_extended, mods |-> modnames]

\* add_node, lines 37-40: the two checks that raise CallGraphError
AddNodeRaises(name) == name = NotAString \/ name = ""

\* add_node, lines 43-52: the bookkeeping of a name seen for the first time
AddNodeCreate(g, name, modname) ==
    IF name \notin DOMAIN g.cg
    THEN [cg   |-> g.cg @@ (name :> {}),
          ext  |-> g.ext @@ (name :> [dsts |-> <<>>,
                                      meta |-> [modname |-> modname]]),
          mods |-> g.mods @@ (name :> modname)]
    ELSE g

\* a backfill in which the last module passed wins
AddNodeFillLastWins(g, name, modname) ==
    [g EXCEPT !.mods[name] = modname, !.ext[name].meta.modname = modname]

\* add_node, lines 56-64: the backfill of the declaring module
AddNodeFill(g, name, modname) ==
    IF name \in DOMAIN g.cg /\ g.mods[name] = ""
    THEN [g EXCEPT !.mods[name] = modname]
    ELSE IF g.ext[name].meta.modname = ""
         THEN [g EXCEPT !.ext[name].meta.modname = modname]
         ELSE g

\* add_node on a name that passes the checks
AddNodeOk(g, name, modname) ==
    AddNodeFill(AddNodeCreate(g, name, modname), name, modname)

\* an insertion that logs an edge only when the adjacency set grows
AddEdgeInsertDedup(g, src, dest, lineno, mod, ext_mod) ==
    IF dest \in g.cg[src]
    THEN g
    ELSE [g EXCEPT !.cg[src] = @ \cup {dest},
                   !.ext[src].dsts = Append(@, [dst |-> dest, lineno |-> lineno,
                                                mod |-> mod, ext_mod |-> ext_mod])]

\* add_edge, lines 71-81, after both add_node calls returned
AddEdgeInsert(g, src, dest, lineno, mod, ext_mod) ==
    [g EXCEPT !.cg[src] = @ \cup {dest},
              !.ext[src].dsts = Append(@, [dst |-> dest, lineno |-> lineno,
                                           mod |-> mod, ext_mod |-> ext_mod])]

\* the elements of a set as a list, in the order an iteration meets them
\* (one order is taken; nothing modelled depends on which)
RECURSIVE Listed(_)
Listed(S) ==
    IF S = {} THEN <<>>
    ELSE LET x == CHOOSE y \in S : TRUE
         IN  <<x>> \o Listed(S \ {x})

\* an edge list read off the provenance logs, one pair per record
GetEdgesFromLog(g) ==
    LET RECURSIVE Flat(_)
        Flat(srcs) ==
            IF srcs = <<>> THEN <<>>
            ELSE [i \in 1..Len(g.ext[Head(srcs)].dsts) |->
                      <<Head(srcs), g.ext[Head(srcs)].dsts[i].dst>>]
                 \o Flat(Tail(srcs))
    IN  Flat(Listed(DOMAIN g.cg))

\* get_edges, lines 90-95: a [src, dst] pair for every dst of every cg[src]
GetEdges(g) ==
    LET RECURSIVE Flat(_)
        Flat(srcs) ==
            IF srcs = <<>> THEN <<>>
            ELSE LET dsts == Listed(g.cg[Head(srcs)])
                 IN  [i \in 1..Len(dsts) |-> <<Head(srcs), dsts[i]>>]
                     \o Flat(Tail(srcs))
    IN  Flat(Listed(DOMAIN g.cg))

\* len(self.cg_extended[n]['dsts']), 0 for a name that is no node
LogLen(ext, n) == IF n \in DOMAIN ext THEN Len(ext[n].dsts) ELSE 0

TotalLog(ext) ==
    LET RECURSIVE Sum(_)
        Sum(S) == IF S = {} THEN 0
                  ELSE LET n == CHOOSE x \in S : TRUE
                       IN Len(ext[n].dsts) + Sum(S \ {n})
    IN Sum(DOMAIN ext)

\* history of the module arguments: the first non-empty one per name
NoteMod(h, name, modname) ==
    IF h[name] = "" THEN [h EXCEPT ![name] = modname] ELSE h

SetGraph(g) ==
    /\ cg' = g.cg
    /\ cg_extended' = g.ext
    /\ modnames' = g.mods

CGInit ==
    /\ cg = <<>>
    /\ cg_extended = <<>>
    /\ modnames = <<>>
    /\ firstMod = [n \in NodeNames |-> ""]

\* a call of CallGraph.add_node(name, modname)
AddNode(name, modname) ==
    IF AddNodeRaises(name)
    THEN UNCHANGED <<cg, cg_extended, modnames, firstMod>>
    ELSE /\ SetGraph(AddNodeOk(Graph, name, modname))
         /\ firstMod' = NoteMod(firstMod, name, modname)

\* a call of CallGraph.add_edge(src, dest, lineno, mod, ext_mod)
AddEdge(src, dest, lineno, mod, ext_mod) ==
    /\ TotalLog(cg_extended) < MaxLog
    /\ IF AddNodeRaises(src)
       THEN \* line 69 raises: nothing was touched
            /\ UNCHANGED <<cg, cg_extended, modnames, firstMod>>
       ELSE IF AddNodeRaises(dest)
       THEN \* line 70 raises after line 69 has added or backfilled src
            /\ SetGraph(AddNodeOk(Graph, src, mod))
            /\ firstMod' = NoteMod(firstMod, src, mod)
       ELSE /\ SetGraph(AddEdgeInsert(AddNodeOk(AddNodeOk(Graph, src, mod), dest, ""),
                                      src, dest, lineno, mod, ext_mod))
            /\ firstMod' = NoteMod(NoteMod(firstMod, src, mod), dest, "")

CGAddNode ==
    /\ \E name \in NameArgs, modname \in ModArgs : AddNode(name, modname)
    /\ UNCHANGED otherThanCG

CGAddEdge ==
    /\ \E src \in NameArgs, dest \in NameArgs, lineno \in LineArgs,
          mod \in EdgeModArgs, ext_mod \in ExtModArgs :
           AddEdge(src, dest, lineno, mod, ext_mod)
    /\ UNCHANGED otherThanCG

CGNext ==
    \/ CGAddNode
    \/ CGAddEdge

(***************************************************************************)
(* The fact stores, extract_state and has_converged (pycg.py)              *)
(***************************************************************************)
DefKeys == {"d1"}
ScopeKeys == {"s1"}
ClassKeys == {"c1"}
PointeeSets == SUBSET {"v"}

\* every map from a subset of Keys to Values
PartialMaps(Keys, Values) == UNION {[D -> Values] : D \in SUBSET Keys}

\* def_manager.get_defs(): namespace -> the definition's two pointee sets
DefStores == PartialMaps(DefKeys, [names : PointeeSets, lit : PointeeSets])

\* scope_manager.get_scopes(): scope -> (local name -> namespace of its definition)
ScopeStores ==
    PartialMaps(ScopeKeys, {<<>>, [n \in {"x"} |-> "ns"], [n \in {"x", "y"} |-> "ns"]})

\* class_manager.get_classes(): class -> its mro list
ClassStores == PartialMaps(ClassKeys, {<<"c1">>, <<"c1", "o">>})

FactStores == [defs : DefStores, scopes : ScopeStores, classes : ClassStores]

\* self.state = None
None == <<>>

\* the range of a map: set([x.get_ns() for (_, x) in scope.get_defs().items()])
Range(f) == {f[x] : x \in DOMAIN f}

\* extract_state
ExtractState(f) ==
    [defs    |-> [k \in DOMAIN f.defs |->
                    [names |-> f.defs[k].names, lit |-> f.defs[k].lit]],
     scopes  |-> [k \in DOMAIN f.scopes |-> Range(f.scopes[k])],
     classes |-> [k \in DOMAIN f.classes |-> f.classes[k]]]

\* has_converged lines 95-116: the three loops over the current state's keys
SameAsPrior(prior, curr) ==
    /\ \A key \in DOMAIN curr.defs :
          /\ key \in DOMAIN prior.defs
          /\ curr.defs[key].names = prior.defs[key].names
          /\ curr.defs[key].lit = prior.defs[key].lit
    /\ \A key \in DOMAIN curr.scopes :
          /\ key \in DOMAIN prior.scopes
          /\ curr.scopes[key] = prior.scopes[key]
    /\ \A key \in DOMAIN curr.classes :
          /\ key \in DOMAIN prior.classes
          /\ curr.classes[key] = prior.classes[key]

\* a has_converged that takes a snapshot without definitions for no snapshot
HasConvergedEmptyIsNone(st, f) ==
    /\ st # None
    /\ st[1].defs # <<>>
    /\ SameAsPrior(st[1], ExtractState(f))

\* has_converged, with self.state = st and the fact stores holding f
HasConverged(st, f) ==
    /\ st # None
    /\ SameAsPrior(st[1], ExtractState(f))

ConvInit ==
    /\ facts \in FactStores
    /\ state = None
    /\ changed = FALSE
    /\ hc = [called |-> FALSE, result |-> FALSE]

\* self.state = self.extract_state()  (pycg.py line 209)
TakeSnapshot ==
    /\ state' = <<ExtractState(facts)>>
    /\ changed' = FALSE
    /\ UNCHANGED <<facts, hc>>
    /\ UNCHANGED otherThanConv

\* an analysis pass (or complete_definitions) rewrites the fact stores
MutateFacts ==
    /\ \E f \in FactStores : f # facts /\ facts' = f
    /\ changed' = TRUE
    /\ UNCHANGED <<state, hc>>
    /\ UNCHANGED otherThanConv

\* a call of has_converged()
CheckConverged ==
    /\ hc' = [called |-> TRUE, result |-> HasConverged(state, facts)]
    /\ UNCHANGED <<facts, state, changed>>
    /\ UNCHANGED otherThanConv

ConvNext ==
    \/ TakeSnapshot
    \/ MutateFacts
    \/ CheckConverged

(***************************************************************************)
(* ImportManager (imports.py) and the import machinery it drives           *)
(*                                                                         *)
(* A dotted name is the list name.split("."): "" is <<"">>, "pkg.x" is     *)
(* <<"pkg", "x">> and the relative name "..x" is <<"", "", "x">>.  A path  *)
(* is the list of its components; a module file's last component is its    *)
(* stem, the suffix ".py" being left out (<<"r", "pkg", "x">> is           *)
(* /r/pkg/x.py).  No component of the paths below is a proper prefix of    *)
(* another, so that Python's substring test on two paths is the test for   *)
(* a contiguous run of components.  An optional value is <<>> (None) or    *)
(* <<v>>.                                                                  *)
(***************************************************************************)
Some(v) == <<v>>

\* ".".join(list), read back as a dotted name
Join(list) == IF list = <<>> THEN <<"">> ELSE list

\* list[:-n]
DropLast(list, n) == IF n = 0 THEN <<>> ELSE SubSeq(list, 1, Len(list) - n)

\* the configured package root of the runs modelled
RootDir == <<"r">>

\* the modules there are on disk: dotted name -> file, and whether the file
\* is a package initializer
Disk ==
    (<<"pkg">>               :> [file |-> <<"r", "pkg", "__init__">>]) @@
    (<<"pkg", "x">>          :> [file |-> <<"r", "pkg", "x">>]) @@
    (<<"pkg", "sub">>        :> [file |-> <<"r", "pkg", "sub", "__init__">>]) @@
    (<<"pkg", "sub", "mod">> :> [file |-> <<"r", "pkg", "sub", "mod">>]) @@
    (<<"pkg", "sub", "x">>   :> [file |-> <<"r", "pkg", "sub", "x">>]) @@
    (<<"x">>                 :> [file |-> <<"r", "x">>]) @@
    (<<"ext">>               :> [file |-> <<"o", "ext">>]) @@
    (<<"lib">>               :> [file |-> <<"o", "r", "lib">>]) @@
    (<<"os">>                :> [file |-> <<"u", "os">>])

\* sys.builtin_module_names
BuiltinNames == {"sys"}

\* sys.path, sys.path_hooks and sys.modules when the analysis starts
OrigPath == << <<"o", "r">>, <<"o">> >>
OrigPathHooks == <<"zipimporter", "FileFinder">>
OrigModules == {<<"os">>}

\* the path hook install_hooks builds from the custom loader
CustomHook == "CustomLoader"

\* fname.endswith("__init__.py")
IsInitPath(path) == path # <<>> /\ path[Len(path)] = "__init__"

\* the directory a finder has to be looking at to find the module
FoundIn(fullname) ==
    LET file == Disk[fullname].file
    IN  IF IsInitPath(file) THEN DropLast(file, 2) ELSE DropLast(file, 1)

\* the module's __path__ (packages only)
PackageDir(fullname) == DropLast(Disk[fullname].file, 1)

\* the state the import machinery reads and writes during one import:
\*   ig    import_graph           sm   sys.modules
\*   ic    sys.path_importer_cache: directory -> the hook that serves it
ImState(ig, sm, ic) == [ig |-> ig, sm |-> sm, ic |-> ic]

\* get_node
GetNode(ig, name) == IF name \in DOMAIN ig THEN Some(ig[name]) ELSE <<>>

\* create_edge raises (lines 94-99)
CreateEdgeRaises(ig, cur, dest) ==
    \/ dest = <<"">>
    \/ cur \notin DOMAIN ig

\* create_edge, line 101
CreateEdge(ig, cur, dest) == [ig EXCEPT ![cur].imports = @ \cup {dest}]

\* create_node, line 89, followed by set_filepath, line 139
CreateNodeWithFile(ig, name, filename) ==
    (name :> [filename |-> filename, imports |-> {}]) @@ ig

\* CustomLoader.__init__ raises (create_edge on a current module without node)
LoaderRaises(ig, cur, fullname) ==
    cur # <<"">> /\ CreateEdgeRaises(ig, cur, fullname)

\* CustomLoader.__init__, lines 40-46
LoaderInit(ig, cur, fullname, path) ==
    IF cur = <<"">>
    THEN ig
    ELSE LET edged == CreateEdge(ig, cur, fullname)
         IN  IF fullname \notin DOMAIN edged
             THEN CreateNodeWithFile(edged, fullname, path)
             ELSE edged

\* the first of sys.path_hooks that accepts a directory; <<>> if none does
HookFor(hooks) ==
    LET ok == {i \in 1..Len(hooks) : hooks[i] \in {CustomHook, "FileFinder"}}
    IN  IF ok = {} THEN <<>>
        ELSE Some(hooks[CHOOSE i \in ok : \A j \in ok : i <= j])

\* the outcome of a step of the machinery: the state it leaves, whether it
\* raised, and the module it produced
Outcome(st, raised, mod) == [st |-> st, raised |-> raised, mod |-> mod]

\* PathFinder over the directories dirs[i..]: the path hooks are asked for a
\* finder of each directory not in the importer cache; a finder built by the
\* custom hook constructs a CustomLoader for the file it finds
RECURSIVE FindSpec(_, _, _, _, _, _)
FindSpec(st, hooks, cur, fullname, dirs, i) ==
    IF i > Len(dirs)
    THEN Outcome(st, TRUE, <<>>)
    ELSE LET dir == dirs[i]
             cached == dir \in DOMAIN st.ic
         IN  IF ~cached /\ hooks = <<>>
             THEN Outcome(st, TRUE, <<>>)
             ELSE LET hook == IF cached THEN Some(st.ic[dir]) ELSE HookFor(hooks[1])
                      st1 == IF cached \/ hook = <<>> THEN st
                             ELSE [st EXCEPT !.ic = (dir :> hook[1]) @@ @]
                  IN  IF hook = <<>> \/ fullname \notin DOMAIN Disk
                                     \/ FoundIn(fullname) # dir
                      THEN FindSpec(st1, hooks, cur, fullname, dirs, i + 1)
                      ELSE IF hook[1] # CustomHook
                      THEN Outcome([st1 EXCEPT !.sm = @ \cup {fullname}],
                                   FALSE, Some(fullname))
                      ELSE IF LoaderRaises(st1.ig, cur, fullname)
                      THEN Outcome(st1, TRUE, <<>>)
                      ELSE Outcome([st1 EXCEPT
                                      !.ig = LoaderInit(@, cur, fullname,
                                                        Disk[fullname].file),
                                      !.sm = @ \cup {fullname}],
                                   FALSE, Some(fullname))

\* importlib's _find_and_load of an absolute name: the parents first, each
\* module taken from sys.modules when it is there
RECURSIVE FindAndLoad(_, _, _, _, _)
FindAndLoad(st, hooks, path, cur, fullname) ==
    IF fullname \in st.sm
    THEN Outcome(st, FALSE, Some(fullname))
    ELSE IF Len(fullname) = 1
    THEN IF fullname[1] \in BuiltinNames
         THEN Outcome([st EXCEPT !.sm = @ \cup {fullname}], FALSE, Some(fullname))
         ELSE IF path = <<>>
         THEN Outcome(st, TRUE, <<>>)
         ELSE FindSpec(st, hooks, cur, fullname, path[1], 1)
    ELSE LET parent == DropLast(fullname, 1)
             up == FindAndLoad(st, hooks, path, cur, parent)
         IN  IF up.raised
             THEN up
             ELSE IF fullname \in up.st.sm
             THEN Outcome(up.st, FALSE, Some(fullname))
             ELSE IF parent \notin DOMAIN Disk \/ ~IsInitPath(Disk[parent].file)
             THEN Outcome(up.st, TRUE, <<>>)
             ELSE FindSpec(up.st, hooks, cur, fullname, <<PackageDir(parent)>>, 1)

\* the number of leading dots of a dotted name
RECURSIVE LeadingDots(_)
LeadingDots(name) ==
    IF Len(name) >= 2 /\ name[1] = "" THEN 1 + LeadingDots(Tail(name)) ELSE 0

\* importlib.import_module(name, package) raises before any module is looked
\* for: a relative name without package, a level beyond the package's
\* components, an empty name
ResolveRaises(name, pkg) ==
    LET level == LeadingDots(name)
    IN  IF level > 0
        THEN pkg = <<"">> \/ Len(pkg) < level
        ELSE name = <<"">>

\* importlib's _resolve_name: the absolute name of a relative one
ResolveName(name, pkg) ==
    LET level == LeadingDots(name)
        rest  == SubSeq(name, level + 1, Len(name))
        base  == SubSeq(pkg, 1, Len(pkg) - (level - 1))
    IN  IF level = 0 THEN name
        ELSE IF rest = <<"">> THEN base
        ELSE base \o rest

\* _do_import, lines 173-177
DoImport(st, hooks, path, cur, mod_name, pkg) ==
    IF mod_name \in st.sm
    THEN IF CreateEdgeRaises(st.ig, cur, mod_name)
         THEN Outcome(st, TRUE, <<>>)
         ELSE Outcome([st EXCEPT !.ig = CreateEdge(@, cur, mod_name)],
                      FALSE, Some(mod_name))
    ELSE IF ResolveRaises(mod_name, pkg)
    THEN Outcome(st, TRUE, <<>>)
    ELSE FindAndLoad(st, hooks, path, cur, ResolveName(mod_name, pkg))

\* _handle_import_level raises ImportError (lines 155-157)
ImportLevelRaises(cur, level) == level > Len(cur)

\* _handle_import_level, lines 162-169: the package the import is relative to
ImportLevelPackage(cur, isInit, level) ==
    IF isInit /\ level >= 1
    THEN IF level # 1 THEN Join(DropLast(cur, level - 1)) ELSE Join(cur)
    ELSE Join(DropLast(cur, level))

\* _handle_import_level, line 159: ("." * level) + name
ImportLevelName(name, level) == [i \in 1..level |-> ""] \o name

\* handle_import, lines 201-206: the four (name, package) pairs tried in order
Combos(name, level, cur, isInit) ==
    LET mod_name    == ImportLevelName(name, level)
        pkg         == ImportLevelPackage(cur, isInit, level)
        parent      == Join(DropLast(mod_name, 1))
        parent_name == Join(DropLast(name, 1))
    IN  << <<mod_name, pkg>>,
           <<parent, pkg>>,
           <<pkg \o name, <<"">> >>,
           <<pkg \o parent_name, <<"">> >> >>

\* handle_import, lines 209-217: the first pair that loads wins, an exception
\* of any kind moves on to the next pair
RECURSIVE TryCombos(_, _, _, _, _, _)
TryCombos(st, hooks, path, cur, combos, i) ==
    IF i > Len(combos)
    THEN Outcome(st, TRUE, <<>>)
    ELSE LET r == DoImport(st, hooks, path, cur, combos[i][1], combos[i][2])
         IN  IF r.raised
             THEN TryCombos(r.st, hooks, path, cur, combos, i + 1)
             ELSE r

\* a in b, for two paths
IsInfix(a, b) == \E i \in 0..(Len(b) - Len(a)) : SubSeq(b, i + 1, i + Len(a)) = a

\* the path lies in the directory or below it
IsUnder(dir, path) == Len(dir) <= Len(path) /\ SubSeq(path, 1, Len(dir)) = dir

\* handle_import, line 227: self.mod_dir != None and self.mod_dir not in mod.__file__
PathOutside(dir, file) == dir # <<>> /\ ~IsInfix(dir[1], file)

\* the process's working directory, which os.path.relpath starts from when
\* it is given no start
Cwd == <<"w">>

\* os.path.relpath(path, start), as a list of components
RECURSIVE CommonLen(_, _)
CommonLen(a, b) ==
    IF a # <<>> /\ b # <<>> /\ a[1] = b[1] THEN 1 + CommonLen(Tail(a), Tail(b)) ELSE 0

RelPath(path, start) ==
    LET c == CommonLen(path, start)
        rel == [i \in 1..(Len(start) - c) |-> ".."] \o SubSeq(path, c + 1, Len(path))
    IN  IF rel = <<>> THEN <<".">> ELSE rel

\* utils.to_mod_name: every "/" becomes a ".", so that a ".." component reads
\* back as three empty components of the dotted name and "." as two
RECURSIVE ToModName(_)
ToModName(rel) ==
    IF rel = <<>> THEN <<>>
    ELSE (IF rel[1] = ".." THEN <<"", "", "">>
          ELSE IF rel[1] = "." THEN <<"", "">>
          ELSE <<rel[1]>>) \o ToModName(Tail(rel))

\* handle_import, lines 220-234: what is returned for the module that loaded
ImportResult(dir, mod) ==
    IF mod = <<>> \/ mod[1] \notin DOMAIN Disk
    THEN <<>>
    ELSE LET file == Disk[mod[1]].file
         IN  IF PathOutside(dir, file)
             THEN <<>>
             ELSE LET fname == IF IsInitPath(file) THEN DropLast(file, 1) ELSE file
                  IN  Some(ToModName(RelPath(fname, IF dir = <<>> THEN Cwd ELSE dir[1])))

\* _clear_caches, lines 111-113
ClearedModules(ig, sm) == sm \ DOMAIN ig

\* the number of custom hooks in sys.path_hooks
Nested(hooks) ==
    IF hooks = <<>> THEN 0
    ELSE Cardinality({i \in 1..Len(hooks[1]) : hooks[1][i] = CustomHook})

NoCall == [op |-> "none", name |-> <<"">>, level |-> 0, raised |-> FALSE,
           result |-> <<>>, loaded |-> <<>>, hooked |-> FALSE]

IMInit ==
    /\ import_graph = <<>>
    /\ current_module = <<"">>
    /\ input_file = <<>>
    /\ mod_dir = <<>>
    /\ old_path_hooks = <<>>
    /\ old_path = <<>>
    /\ sys_path_hooks = Some(OrigPathHooks)
    /\ sys_path = Some(OrigPath)
    /\ sys_modules = OrigModules
    /\ importer_cache = <<>>
    /\ imCall = NoCall
    /\ installPending = FALSE
    /\ nImports = 0

\* set_pkg
SetPkg ==
    /\ mod_dir' = Some(RootDir)
    /\ imCall' = NoCall
    /\ UNCHANGED <<import_graph, current_module, input_file, old_path_hooks, old_path,
                   sys_path_hooks, sys_path, sys_modules, importer_cache,
                   installPending, nImports>>
    /\ UNCHANGED otherThanIM

\* the modules whose imports are resolved
CurrentMods == {<<"pkg", "sub", "mod">>, <<"pkg", "sub">>}

\* a create_node that accepts every name
CreateNodeRaisesNever(ig, name) == FALSE

\* create_node raises (lines 83-87): an empty name, or a name that has a node
CreateNodeRaises(ig, name) == name = <<"">> \/ GetNode(ig, name) # <<>>

\* create_node(name) followed by set_filepath(name, file), as the passes do
\* for the module they enter; create_node raises for a name that has a node
CreateNode ==
    /\ \E name \in CurrentMods :
         /\ imCall' = [NoCall EXCEPT !.op = "create_node", !.name = name,
                                     !.raised = CreateNodeRaises(import_graph, name)]
         /\ IF CreateNodeRaises(import_graph, name)
            THEN UNCHANGED import_graph
            ELSE import_graph' = CreateNodeWithFile(import_graph, name, Disk[name].file)
    /\ UNCHANGED <<current_module, input_file, mod_dir, old_path_hooks, old_path,
                   sys_path_hooks, sys_path, sys_modules, importer_cache,
                   installPending, nImports>>
    /\ UNCHANGED otherThanIM

\* set_current_mod(name, fname)
SetCurrentMod ==
    /\ \E name \in CurrentMods :
         /\ current_module' = name
         /\ input_file' = Disk[name].file
    /\ UNCHANGED <<import_graph, mod_dir, old_path_hooks, old_path, sys_path_hooks,
                   sys_path, sys_modules, importer_cache, installPending,
                   nImports>>
    /\ imCall' = NoCall
    /\ UNCHANGED otherThanIM

\* the (name, level) pairs handle_import is called with: every level for a
\* name that exists beside, above and below the current modules, "from . import",
\* and absolute imports of a module outside the root, of one outside the root
\* whose path contains the root's, of a built-in and of a module that was in
\* sys.modules before the analysis started
ImportLevels == {0, 1, 2, 3}
ImportCalls ==
    ({<<"x">>} \X ImportLevels) \cup {<<<<"">>, 1>>}
    \cup ({<<"ext">>, <<"lib">>, <<"sys">>, <<"os">>} \X {0})

\* handle_import(name, level)
HandleImport(name, level) ==
    LET cur  == current_module
        call == [NoCall EXCEPT !.op = "handle_import", !.name = name, !.level = level,
                               !.hooked = sys_path_hooks # <<>>
                                          /\ sys_path_hooks[1] # <<>>
                                          /\ sys_path_hooks[1][1] = CustomHook]
    IN
    IF name[1] \in BuiltinNames
    THEN \* lines 184-188
         IF CreateEdgeRaises(import_graph, cur, <<name[1]>>)
         THEN /\ imCall' = [call EXCEPT !.raised = TRUE]
              /\ UNCHANGED <<import_graph, sys_modules, importer_cache>>
         ELSE /\ imCall' = call
              /\ import_graph' = CreateEdge(import_graph, cur, <<name[1]>>)
              /\ UNCHANGED <<sys_modules, importer_cache>>
    ELSE IF ImportLevelRaises(cur, level)
    THEN \* lines 196-198
         /\ imCall' = call
         /\ UNCHANGED <<import_graph, sys_modules, importer_cache>>
    ELSE \E r \in {TryCombos(ImState(import_graph, sys_modules, importer_cache),
                              sys_path_hooks, sys_path, cur,
                              Combos(name, level, cur, IsInitPath(input_file)), 1)} :
             /\ import_graph' = r.st.ig
             /\ sys_modules' = r.st.sm
             /\ importer_cache' = r.st.ic
             /\ imCall' = [call EXCEPT !.loaded = r.mod,
                                       !.result = ImportResult(mod_dir, r.mod)]

IMHandleImport ==
    /\ nImports < MaxImports
    /\ nImports' = nImports + 1
    /\ \E call \in ImportCalls : HandleImport(call[1], call[2])
    /\ UNCHANGED <<current_module, input_file, mod_dir, old_path_hooks, old_path,
                   sys_path_hooks, sys_path, installPending>>
    /\ UNCHANGED otherThanIM

\* install_hooks raises part-way: line 251 on sys.path_hooks = None, line 253
\* on self.mod_dir = None or sys.path = None
InstallRaises(dir) == sys_path_hooks = <<>> \/ dir = <<>> \/ sys_path = <<>>

\* install_hooks, lines 244-256, with self.mod_dir = dir
InstallHooks(dir) ==
    /\ old_path_hooks' = sys_path_hooks
    /\ old_path' = sys_path
    /\ sys_path_hooks' = IF sys_path_hooks = <<>> THEN sys_path_hooks
                         ELSE Some(<<CustomHook>> \o sys_path_hooks[1])
    /\ IF InstallRaises(dir)
       THEN UNCHANGED <<sys_path, sys_modules, importer_cache>>
       ELSE /\ sys_path' = Some(<<dir[1]>> \o sys_path[1])
            /\ sys_modules' = ClearedModules(import_graph, sys_modules)
            /\ importer_cache' = <<>>

\* remove_hooks, lines 261-264
RemoveHooks ==
    /\ sys_path_hooks' = old_path_hooks
    /\ sys_path' = old_path
    /\ sys_modules' = ClearedModules(import_graph, sys_modules)
    /\ importer_cache' = <<>>

IMInstall ==
    /\ Nested(sys_path_hooks) < MaxNested
    /\ InstallHooks(mod_dir)
    /\ installPending' = TRUE
    /\ imCall' = NoCall
    /\ UNCHANGED <<import_graph, current_module, input_file, mod_dir, nImports>>
    /\ UNCHANGED otherThanIM

IMRemove ==
    /\ RemoveHooks
    /\ installPending' = FALSE
    /\ imCall' = NoCall
    /\ UNCHANGED <<import_graph, current_module, input_file, mod_dir, old_path_hooks,
                   old_path, nImports>>
    /\ UNCHANGED otherThanIM

IMNext ==
    \/ SetPkg
    \/ CreateNode
    \/ SetCurrentMod
    \/ IMHandleImport
    \/ IMInstall
    \/ IMRemove

(***************************************************************************)
(* CallGraphGenerator (pycg.py): analyze() and do_pass()                   *)
(*                                                                         *)
(* The passes (PreProcessor, PostProcessor, CallGraphProcessor,            *)
(* KeyErrProcessor) and def_manager.complete_definitions() belong to other *)
(* files; what they do to the fact stores, what a pass reports as analysed *)
(* and whether it raises are inputs of the actions below.  An entry point  *)
(* is an absolute path, so that os.path.abspath leaves it as it is.        *)
(***************************************************************************)
\* utils.constants.CALL_GRAPH_OP and KEY_ERR_OP, and a third value
CALL_GRAPH_OP == "call-graph"
KEY_ERR_OP == "key-error"
Operations == {CALL_GRAPH_OP, KEY_ERR_OP, "other"}

\* the entry-point lists of the runs modelled: none, one module, the same
\* module twice, the root's initializer before a module, a module and a package
EntryLists ==
    { <<>>,
      << <<"r", "a">> >>,
      << <<"r", "a">>, <<"r", "a">> >>,
      << <<"r", "__init__">>, <<"r", "a">> >>,
      << <<"r", "a">>, <<"r", "pkg", "__init__">> >>,
      << <<"r", "pkg", "x__init__">> >> }

\* the package the generator is constructed with: None or the root
Packages == {<<>>, Some(RootDir)}

\* the fact-store contents the passes and complete_definitions leave
GenFactStores ==
    { [defs |-> <<>>, scopes |-> <<>>, classes |-> <<>>],
      [defs |-> [k \in {"d1"} |-> [names |-> {}, lit |-> {}]],
       scopes |-> <<>>, classes |-> <<>>],
      [defs |-> [k \in {"d1"} |-> [names |-> {"v"}, lit |-> {}]],
       scopes |-> <<>>, classes |-> <<>>] }

\* what def_manager.complete_definitions() may leave of the stores f: it
\* resolves pointees of the definitions there are and neither adds nor
\* removes a definition, a scope or a class
CompleteDefinitions(f) ==
    {g \in GenFactStores : /\ DOMAIN g.defs = DOMAIN f.defs
                           /\ DOMAIN g.scopes = DOMAIN f.scopes
                           /\ DOMAIN g.classes = DOMAIN f.classes}

\* the file stems of the runs modelled that end with the characters "__init__"
InitSuffixed == {"__init__", "x__init__"}

\* input_mod.endswith("__init__"), for a dotted name: a test on the
\* characters of the name, which only its last component decides
EndsWithInit(mod) == mod[Len(mod)] \in InitSuffixed

\* _get_mod_name(entry, pkg), lines 132-137
GetModName(entry, pkg) ==
    LET input_mod == ToModName(RelPath(entry, IF pkg = <<>> THEN Cwd ELSE pkg[1]))
    IN  IF EndsWithInit(input_mod) THEN Join(DropLast(input_mod, 1)) ELSE input_mod

\* do_pass, lines 153 and 161-162: the package of the entry point the loop is at
InputPkg(entry) == IF package = <<>> THEN Some(DropLast(entry, 1)) ELSE package

\* a loop that passes over an entry point only when it has no module name
SkippedOnlyUnnamed(entry) == GetModName(entry, package) = <<"">>

\* do_pass, lines 157 and 165: the entry point is passed over
Skipped(entry) ==
    LET input_mod == GetModName(entry, package)
    IN  input_mod = <<"">> \/ input_mod \in modules_analyzed

\* what a pass may report as analysed when it is run for input_mod: the
\* modules it analysed, its entry module among them (the pass registers its
\* module name in the shared set it is constructed with)
Reports(input_mod) == {{input_mod}, {input_mod, <<"pkg">>}}

\* what a pass may leave in the call graph and in the key-error findings:
\* CallGraphProcessor is handed call_graph=self.cg (line 222) and
\* KeyErrProcessor self.key_errs (line 226), the other passes neither
PassOutputs(cls) ==
    LET same == [graph |-> Graph, firstMod |-> firstMod, key_errs |-> key_errs]
    IN  IF cls = "cg"
        THEN {same, [same EXCEPT !.graph = AddNodeOk(Graph, "a", "m1"),
                                 !.firstMod = NoteMod(firstMod, "a", "m1")]}
        ELSE IF cls = "ke"
        THEN {same, [same EXCEPT !.key_errs = key_errs \cup {"k"}]}
        ELSE {same}

\* a selection that takes every operation other than key-error for call-graph
TerminalClassDefaultCG(op) == IF op = KEY_ERR_OP THEN "ke" ELSE "cg"

\* analyze, lines 219-228: the pass class the operation selects, "none" for
\* the operation that raises
TerminalClass(op) ==
    IF op = CALL_GRAPH_OP THEN "cg"
    ELSE IF op = KEY_ERR_OP THEN "ke"
    ELSE "none"

\* an iteration that resets the counters before it takes the snapshot
IterationCallsResetFirst ==
    <<"has_converged", "reset_counters", "extract_state", "do_pass">>

\* analyze, lines 207-211: the calls from the loop test that holds to the
\* call of do_pass(PostProcessor, ...)
IterationCalls ==
    <<"has_converged", "extract_state", "reset_counters", "do_pass">>

\* a driver that asks for the hooks in the post-processing passes too
InstallsHooksInPost(cls) == cls \in {"pre", "post"}

\* analyze, lines 197, 211, 220 and 224: the install_hooks argument of the
\* do_pass call for the pass class
InstallsHooks(cls) == cls = "pre"

\* a loop test that lets iteration number max_iter start as well
LoopContinuesInclusive(mi, ic, st, f) == (mi < 0 \/ ic <= mi) /\ ~HasConverged(st, f)

\* analyze, line 207: the test of the while loop
LoopContinues(mi, ic, st, f) == (mi < 0 \/ ic < mi) /\ ~HasConverged(st, f)

\* CallGraphGenerator.__init__ has run, analyze() has not been called
GenIdle ==
    /\ pc = "idle"
    /\ stage = "none"
    /\ ep = 1
    /\ modules_analyzed = {}
    /\ iter_cnt = 0
    /\ key_errs = {}
    /\ calls = <<>>
    /\ postRuns = 0

\* the generators no specification other than SpecGen runs
NoGen ==
    /\ entry_points = <<>>
    /\ package = <<>>
    /\ max_iter = 0
    /\ operation = CALL_GRAPH_OP
    /\ GenIdle

GenInit ==
    /\ entry_points \in EntryLists
    /\ package \in Packages
    /\ max_iter \in -1..MaxIter
    /\ operation \in Operations
    /\ GenIdle

\* the first statement of do_pass (line 151), for the pass class given
BeginPass(cls) ==
    /\ stage' = cls
    /\ ep' = 1
    /\ modules_analyzed' = {}
    /\ pc' = "entry"

\* analyze() is called: do_pass(PreProcessor, True, ...), line 197
GenAnalyze ==
    /\ pc = "idle"
    /\ BeginPass("pre")
    /\ calls' = <<"do_pass">>
    /\ UNCHANGED <<entry_points, package, max_iter, operation, iter_cnt, postRuns>>
    /\ UNCHANGED <<facts, state, mod_dir, old_path_hooks, old_path, sys_path_hooks,
                   sys_path, sys_modules, importer_cache, installPending>>
    /\ UNCHANGED otherThanGen
    /\ UNCHANGED outputs

\* do_pass, lines 157-158 and 165: an entry point without module name, or one
\* whose module is in modules_analyzed, is passed over
EntrySkip ==
    /\ pc = "entry"
    /\ ep <= Len(entry_points)
    /\ Skipped(entry_points[ep])
    /\ ep' = ep + 1
    /\ calls' = <<>>
    /\ UNCHANGED <<entry_points, package, max_iter, operation, pc, stage,
                   modules_analyzed, iter_cnt, postRuns>>
    /\ UNCHANGED <<facts, state, mod_dir, old_path_hooks, old_path, sys_path_hooks,
                   sys_path, sys_modules, importer_cache, installPending>>
    /\ UNCHANGED otherThanGen
    /\ UNCHANGED outputs

\* do_pass, lines 165-172: set_pkg and install_hooks when the pass is the one
\* run with install_hooks = True
EntryBegin ==
    /\ pc = "entry"
    /\ ep <= Len(entry_points)
    /\ ~Skipped(entry_points[ep])
    /\ IF InstallsHooks(stage)
       THEN LET dir == InputPkg(entry_points[ep])
            IN  /\ mod_dir' = dir
                /\ InstallHooks(dir)
                /\ installPending' = TRUE
                /\ pc' = IF InstallRaises(dir) THEN "raised" ELSE "run"
       ELSE /\ pc' = "run"
            /\ UNCHANGED <<mod_dir, old_path_hooks, old_path, sys_path_hooks, sys_path,
                           sys_modules, importer_cache, installPending>>
    /\ calls' = IF InstallsHooks(stage) THEN <<"set_pkg", "install_hooks">> ELSE <<>>
    /\ UNCHANGED <<entry_points, package, max_iter, operation, stage, ep,
                   modules_analyzed, iter_cnt, postRuns>>
    /\ UNCHANGED <<facts, state>>
    /\ UNCHANGED otherThanGen
    /\ UNCHANGED outputs

\* do_pass, lines 176-183: the pass is constructed and run, what it reports is
\* added to modules_analyzed, the hooks are removed if they were installed
RunPass ==
    /\ pc = "run"
    /\ \E f \in GenFactStores,
          reported \in Reports(GetModName(entry_points[ep], package)) :
          /\ facts' = f
          /\ modules_analyzed' = modules_analyzed \cup reported
    /\ IF InstallsHooks(stage)
       THEN /\ RemoveHooks
            /\ installPending' = FALSE
       ELSE UNCHANGED <<sys_path_hooks, sys_path, sys_modules, importer_cache,
                        installPending>>
    /\ \E out \in PassOutputs(stage) :
          /\ SetGraph(out.graph)
          /\ firstMod' = out.firstMod
          /\ key_errs' = out.key_errs
    /\ ep' = ep + 1
    /\ pc' = "entry"
    /\ calls' = IF InstallsHooks(stage) THEN <<"pass", "remove_hooks">> ELSE <<"pass">>
    /\ UNCHANGED <<entry_points, package, max_iter, operation, stage, iter_cnt,
                   postRuns>>
    /\ UNCHANGED <<state, mod_dir, old_path_hooks, old_path>>
    /\ UNCHANGED otherThanGen

\* do_pass, lines 176-179: the constructor of the pass or its analyze() raises;
\* nothing in do_pass or analyze catches it
RunRaises ==
    /\ pc = "run"
    /\ pc' = "raised"
    /\ calls' = <<"pass">>
    /\ UNCHANGED <<entry_points, package, max_iter, operation, stage, ep,
                   modules_analyzed, iter_cnt, postRuns>>
    /\ UNCHANGED <<facts, state, mod_dir, old_path_hooks, old_path, sys_path_hooks,
                   sys_path, sys_modules, importer_cache, installPending>>
    /\ UNCHANGED otherThanGen
    /\ UNCHANGED outputs

\* the for loop of do_pass is over
PassOver(cls) ==
    /\ pc = "entry"
    /\ stage = cls
    /\ ep > Len(entry_points)

\* analyze, lines 204-206: the pre-processing do_pass returns,
\* complete_definitions, iter_cnt = 0
PreReturn ==
    /\ PassOver("pre")
    /\ \E f \in CompleteDefinitions(facts) : facts' = f
    /\ iter_cnt' = 0
    /\ pc' = "loop"
    /\ calls' = <<"complete_definitions">>
    /\ UNCHANGED <<entry_points, package, max_iter, operation, stage, ep,
                   modules_analyzed, postRuns>>
    /\ UNCHANGED <<state, mod_dir, old_path_hooks, old_path, sys_path_hooks,
                   sys_path, sys_modules, importer_cache, installPending>>
    /\ UNCHANGED otherThanGen
    /\ UNCHANGED outputs

\* analyze, lines 207-211: the loop test holds; snapshot, reset_counters and
\* the call of do_pass(PostProcessor, False, ...)
LoopIterate ==
    /\ pc = "loop"
    /\ LoopContinues(max_iter, iter_cnt, state, facts)
    /\ max_iter < 0 => postRuns < MaxUncapped
    /\ state' = Some(ExtractState(facts))
    /\ postRuns' = postRuns + 1
    /\ BeginPass("post")
    /\ calls' = IterationCalls
    /\ UNCHANGED <<entry_points, package, max_iter, operation, iter_cnt>>
    /\ UNCHANGED <<facts, mod_dir, old_path_hooks, old_path, sys_path_hooks,
                   sys_path, sys_modules, importer_cache, installPending>>
    /\ UNCHANGED otherThanGen
    /\ UNCHANGED outputs

\* analyze, lines 215-216: the post-processing do_pass returns,
\* complete_definitions, iter_cnt += 1
PostReturn ==
    /\ PassOver("post")
    /\ \E f \in CompleteDefinitions(facts) : facts' = f
    /\ iter_cnt' = iter_cnt + 1
    /\ pc' = "loop"
    /\ calls' = <<"complete_definitions">>
    /\ UNCHANGED <<entry_points, package, max_iter, operation, stage, ep,
                   modules_analyzed, postRuns>>
    /\ UNCHANGED <<state, mod_dir, old_path_hooks, old_path, sys_path_hooks,
                   sys_path, sys_modules, importer_cache, installPending>>
    /\ UNCHANGED otherThanGen
    /\ UNCHANGED outputs

\* analyze, line 207: the loop test fails
LoopExit ==
    /\ pc = "loop"
    /\ ~LoopContinues(max_iter, iter_cnt, state, facts)
    /\ pc' = "terminal"
    /\ calls' = IF max_iter < 0 \/ iter_cnt < max_iter THEN <<"has_converged">> ELSE <<>>
    /\ UNCHANGED <<entry_points, package, max_iter, operation, stage, ep,
                   modules_analyzed, iter_cnt, postRuns>>
    /\ UNCHANGED <<facts, state, mod_dir, old_path_hooks, old_path, sys_path_hooks,
                   sys_path, sys_modules, importer_cache, installPending>>
    /\ UNCHANGED otherThanGen
    /\ UNCHANGED outputs

\* analyze, lines 218-228: reset_counters and the terminal do_pass the
\* operation selects; any other operation raises
Terminal ==
    /\ pc = "terminal"
    /\ IF TerminalClass(operation) # "none"
       THEN BeginPass(TerminalClass(operation))
       ELSE /\ pc' = "raised"
            /\ UNCHANGED <<stage, ep, modules_analyzed>>
    /\ calls' = IF TerminalClass(operation) # "none"
               THEN <<"reset_counters", "do_pass">> ELSE <<"reset_counters">>
    /\ UNCHANGED <<entry_points, package, max_iter, operation, iter_cnt, postRuns>>
    /\ UNCHANGED <<facts, state, mod_dir, old_path_hooks, old_path, sys_path_hooks,
                   sys_path, sys_modules, importer_cache, installPending>>
    /\ UNCHANGED otherThanGen
    /\ UNCHANGED outputs

\* the terminal do_pass returns and analyze() with it
TerminalReturn ==
    /\ \/ PassOver("cg")
       \/ PassOver("ke")
    /\ pc' = "done"
    /\ calls' = <<>>
    /\ UNCHANGED <<entry_points, package, max_iter, operation, stage, ep,
                   modules_analyzed, iter_cnt, postRuns>>
    /\ UNCHANGED <<facts, state, mod_dir, old_path_hooks, old_path, sys_path_hooks,
                   sys_path, sys_modules, importer_cache, installPending>>
    /\ UNCHANGED otherThanGen
    /\ UNCHANGED outputs

\* tearDown(), called by the client before or after analyze()
TearDown ==
    /\ pc \in {"idle", "done", "raised"}
    /\ RemoveHooks
    /\ installPending' = FALSE
    /\ pc' = "torn"
    /\ calls' = <<"remove_hooks">>
    /\ UNCHANGED <<entry_points, package, max_iter, operation, stage, ep,
                   modules_analyzed, iter_cnt, postRuns>>
    /\ UNCHANGED <<facts, state, mod_dir, old_path_hooks, old_path>>
    /\ UNCHANGED otherThanGen
    /\ UNCHANGED outputs

\* the steps analyze() takes by itself once it has been called
AnalyzeStep ==
    \/ EntrySkip
    \/ EntryBegin
    \/ RunPass
    \/ RunRaises
    \/ PreReturn
    \/ LoopIterate
    \/ PostReturn
    \/ LoopExit
    \/ Terminal
    \/ TerminalReturn

GenNext ==
    \/ GenAnalyze
    \/ AnalyzeStep
    \/ TearDown

(***************************************************************************)
(* Specifications                                                          *)
(***************************************************************************)
ConvIdle ==
    /\ facts = [defs |-> <<>>, scopes |-> <<>>, classes |-> <<>>]
    /\ state = None
    /\ changed = FALSE
    /\ hc = [called |-> FALSE, result |-> FALSE]

Init == CGInit /\ ConvIdle /\ IMInit /\ NoGen

SpecCG == Init /\ [][CGNext]_vars

InitConv == CGInit /\ ConvInit /\ IMInit /\ NoGen

SpecConv == InitConv /\ [][ConvNext]_vars

SpecIM == Init /\ [][IMNext]_vars

InitGen == CGInit /\ ConvIdle /\ IMInit /\ GenInit

\* analyze() is sequential code: once called it takes its next step as long
\* as it has one
SpecGen == InitGen /\ [][GenNext]_vars /\ WF_vars(AnalyzeStep)

(***************************************************************************)
(* Claims about CallGraph, checked under SpecCG                            *)
(***************************************************************************)

\* C1: the module registry holds, for every node, the first non-empty module
\* ever passed for it (and "" while none was passed); a name that is no node
\* has had no module passed.
C1_FirstModuleWins ==
    \A n \in NodeNames :
        IF n \in DOMAIN modnames
        THEN modnames[n] = firstMod[n]
        ELSE firstMod[n] = ""

\* a node registered under "m1" for which "m2" was passed afterwards (only a
\* later add_node(n, "m2") writes "m2" into the extended record)
C1_Witness ==
    \E n \in DOMAIN modnames :
        modnames[n] = "m1" /\ cg_extended[n].meta.modname = "m2"

\* C2: in every reachable state, a second add_node(n, m) with the arguments of
\* a first one leaves cg, cg_extended and modnames as the first call left them.
C2_AddNodeIdempotent ==
    \A n \in NodeNames, m \in ModArgs :
        LET once == AddNodeOk(Graph, n, m)
        IN  AddNodeOk(once, n, m) = once

\* C3: every add_edge that returns appends exactly one record to the source's
\* provenance log and leaves the destination in the source's adjacency set,
\* which grows by at most that destination.
C3_EdgeLogGrowsAdjacencyDedups ==
    [][\A src \in NodeNames, dest \in NodeNames, lineno \in LineArgs,
          mod \in EdgeModArgs, ext_mod \in ExtModArgs :
          AddEdge(src, dest, lineno, mod, ext_mod) =>
            /\ LogLen(cg_extended', src) = LogLen(cg_extended, src) + 1
            /\ cg_extended'[src].dsts[LogLen(cg_extended', src)] =
                   [dst |-> dest, lineno |-> lineno, mod |-> mod, ext_mod |-> ext_mod]
            /\ dest \in cg'[src]
            /\ cg'[src] = (IF src \in DOMAIN cg THEN cg[src] ELSE {}) \cup {dest}]_vars

\* two identical add_edge calls: a log of two equal records, one destination
C3_Witness ==
    \E s \in DOMAIN cg_extended :
        /\ Len(cg_extended[s].dsts) = 2
        /\ cg_extended[s].dsts[1] = cg_extended[s].dsts[2]
        /\ Cardinality(cg[s]) = 1

(***************************************************************************)
(* Claims about convergence, checked under SpecConv                        *)
(***************************************************************************)

\* C4: has_converged() evaluated after a snapshot, with no change of the fact
\* stores in between, is true whatever the stores hold; with no snapshot taken
\* it is false.
C4_ConvergedOnIdenticalSnapshot ==
    /\ (state # None /\ ~changed) => HasConverged(state, facts)
    /\ state = None => ~HasConverged(state, facts)
    /\ hc.called /\ hc.result => state # None

\* has_converged() returned true right after a snapshot of non-empty stores
C4_Witness ==
    /\ hc.called /\ hc.result
    /\ state # None /\ ~changed
    /\ facts.defs # <<>> /\ facts.scopes # <<>> /\ facts.classes # <<>>

\* C5: has_converged() is true only if the prior snapshot and the current
\* state have the same keys in defs, scopes and classes and equal values.
C5_ConvergedOnlyIfEqual ==
    HasConverged(state, facts) => state[1] = ExtractState(facts)

(***************************************************************************)
(* Claims about ImportManager, checked under SpecIM                        *)
(***************************************************************************)

\* the interception of this manager is in place for the root: its hook is the
\* first path hook and the root the first directory searched
Intercepting ==
    /\ sys_path_hooks # <<>> /\ sys_path_hooks[1][1] = CustomHook
    /\ sys_path # <<>> /\ sys_path[1][1] = RootDir
    /\ mod_dir = Some(RootDir)

\* the current module has been declared: it has a node and its file is known
Declared ==
    /\ current_module \in DOMAIN import_graph
    /\ input_file = Disk[current_module].file

\* the step is a call of handle_import(name, level)
Imports(name, level) ==
    /\ nImports' = nImports + 1
    /\ imCall'.name = name /\ imCall'.level = level

\* C7: under interception, handle_import("x", level) called for the declared
\* non-initializer module pkg.sub.mod loads and returns pkg.sub.x at level 1
\* and pkg.x at level 2; called for the declared initializer of pkg.sub it
\* loads and returns pkg.sub.x at level 1 and pkg.x at level 2; and a level
\* larger than the number of components of the current module returns nothing
\* without raising.
C7_RelativeImportTargets ==
    [][\A level \in ImportLevels :
         (Imports(<<"x">>, level) /\ Intercepting /\ Declared) =>
            /\ (level \in {1, 2} /\ current_module = <<"pkg", "sub", "mod">>) =>
                    LET target == SubSeq(current_module, 1, 3 - level) \o <<"x">>
                    IN  imCall'.loaded = Some(target) /\ imCall'.result = Some(target)
            /\ (level \in {1, 2} /\ current_module = <<"pkg", "sub">>) =>
                    LET target == SubSeq(current_module, 1, 2 - (level - 1)) \o <<"x">>
                    IN  imCall'.loaded = Some(target) /\ imCall'.result = Some(target)
            /\ level > Len(current_module) =>
                    imCall'.result = <<>> /\ ~imCall'.raised]_vars

\* C8: under interception, a handle_import of a declared module that loads a
\* module whose file lies outside the root directory returns nothing, and the
\* import graph then holds the edge from the current module to that module.
C8_OutsideRootNeverNamed ==
    [][(nImports' = nImports + 1 /\ Intercepting /\ Declared
        /\ imCall'.loaded # <<>>
        /\ ~IsUnder(RootDir, Disk[imCall'.loaded[1]].file)) =>
            /\ imCall'.result = <<>>
            /\ imCall'.loaded[1] \in import_graph'[current_module].imports]_vars

\* C9: whenever the last call of install_hooks has been followed by a call of
\* remove_hooks (and before any install_hooks), sys.path_hooks and sys.path
\* are the ones the process started with.
C9_RemoveRestoresConfiguration ==
    ~installPending =>
        /\ sys_path_hooks = Some(OrigPathHooks)
        /\ sys_path = Some(OrigPath)

(***************************************************************************)
(* Claims about CallGraphGenerator, checked under SpecGen                  *)
(***************************************************************************)

\* Stage 3 is under way or over: the terminal do_pass has been entered
InStage3 == stage \in {"cg", "ke"}

\* C6: with max_iter >= 0 at most max_iter post-processing passes are started,
\* whatever the passes do to the fact stores; with max_iter = 0 none is and
\* no snapshot is taken; a loop test that fails at the cap leads to the
\* terminal stage and not to an error; and once the loop is reached, Stage 3
\* is eventually entered unless a pass or the selection of the terminal pass
\* raises.
C6_IterationCap ==
    /\ [](max_iter >= 0 => postRuns <= max_iter)
    /\ [](max_iter = 0 => postRuns = 0 /\ state = None)
    /\ [][(pc = "loop" /\ max_iter >= 0 /\ iter_cnt >= max_iter) => pc' = "terminal"]_vars
    /\ [](max_iter >= 0 /\ pc = "loop" => <>(InStage3 \/ pc = "raised"))

\* Stage 3 entered after max_iter > 0 iterations none of which converged
C6_Witness ==
    /\ InStage3
    /\ max_iter > 0
    /\ postRuns = max_iter
    /\ iter_cnt = max_iter
    /\ ~HasConverged(state, facts)

\* C10: analyze() has not ended, by returning or by raising, with a path hook
\* of the import manager installed or with sys.path_hooks or sys.path other
\* than they were.
C10_NoRunEndsIntercepting ==
    pc \in {"done", "raised"} =>
        /\ Nested(sys_path_hooks) = 0
        /\ sys_path_hooks = Some(OrigPathHooks)
        /\ sys_path = Some(OrigPath)

\* C11: a terminal pass is entered only by the selection step at the end of
\* analyze(), at most once in a run, and it is the call-graph pass exactly
\* for the call-graph operation and the key-error pass exactly for the
\* key-error operation; the call graph is written only under the former and
\* the findings only under the latter; for any other operation the selection
\* step raises, no terminal pass is entered and both outputs stay empty.
C11_TerminalPassSelection ==
    /\ [](stage = "cg" => operation = CALL_GRAPH_OP)
    /\ [](stage = "ke" => operation = KEY_ERR_OP)
    /\ [](pc = "done" => InStage3)
    /\ [][(stage' # stage /\ stage' \in {"cg", "ke"}) => pc = "terminal"]_vars
    /\ [][InStage3 => (stage' = stage /\ pc' # "terminal")]_vars
    /\ [](operation # CALL_GRAPH_OP => cg = <<>>)
    /\ [](operation # KEY_ERR_OP => key_errs = {})
    /\ [](operation \notin {CALL_GRAPH_OP, KEY_ERR_OP} => ~InStage3 /\ pc # "done")
    /\ [][(pc = "terminal" /\ operation \notin {CALL_GRAPH_OP, KEY_ERR_OP})
              => pc' = "raised"]_vars

\* a run for the key-error operation that has ended with a finding, and with
\* the call graph empty
C11_Witness ==
    /\ pc = "done"
    /\ operation = KEY_ERR_OP
    /\ stage = "ke"
    /\ key_errs # {}
    /\ cg = <<>>

\* the place of a pass class in the order of the stages
StageRank(cls) ==
    IF cls = "none" THEN 0
    ELSE IF cls = "pre" THEN 1
    ELSE IF cls = "post" THEN 2
    ELSE 3

\* the step calls complete_definitions
Completes == \E i \in DOMAIN calls' : calls'[i] = "complete_definitions"

C13_ExitOnlyAtFixedPoint ==
    (pc = "terminal" /\ (max_iter < 0 \/ iter_cnt < max_iter)) =>
        /\ iter_cnt >= 1
        /\ state # None
        /\ state[1] = ExtractState(facts)

\* the path hook of the import manager is in sys.path_hooks
Installed == Nested(sys_path_hooks) > 0

\* C14: the hook is installed only while the pre-processing pass of an entry
\* point is about to be constructed and run (or after that pass has raised);
\* the step that starts such a pass calls set_pkg and install_hooks and
\* leaves exactly one hook installed and the entry point's package first in
\* sys.path; the step in which the pass returns removes the hook and leaves
\* sys.path_hooks and sys.path as they were at the start; a step that passes
\* over an entry point, and every step of the post-processing and terminal
\* do_pass, leaves both alone.
C14_InterceptionScoping ==
    /\ [](Installed => (stage = "pre" /\ pc \in {"run", "raised"}))
    /\ []((pc = "run" /\ stage = "pre") => Nested(sys_path_hooks) = 1)
    /\ [][(pc # "run" /\ pc' = "run" /\ stage = "pre") =>
              /\ calls' = <<"set_pkg", "install_hooks">>
              /\ ~Installed
              /\ sys_path'[1][1] = InputPkg(entry_points[ep])[1]]_vars
    /\ [][(pc = "run" /\ stage = "pre" /\ pc' # "raised") =>
              /\ calls' = <<"pass", "remove_hooks">>
              /\ sys_path_hooks' = Some(OrigPathHooks)
              /\ sys_path' = Some(OrigPath)]_vars
    /\ [][(pc = "entry" /\ ep <= Len(entry_points) /\ Skipped(entry_points[ep]))
              => UNCHANGED <<sys_path_hooks, sys_path>>]_vars
    /\ [][(stage \in {"post", "cg", "ke"} /\ pc \in {"entry", "run"})
              => UNCHANGED <<sys_path_hooks, sys_path>>]_vars

\* the pre-processing pass of a second entry point is about to run with the
\* hook installed, after the first one's has run and an entry point has been
\* passed over or analysed before it
C14_Witness ==
    /\ pc = "run"
    /\ stage = "pre"
    /\ ep = 2
    /\ modules_analyzed # {}
    /\ Nested(sys_path_hooks) = 1

\* the module name do_pass derives for the entry point the loop is at
EntryMod == GetModName(entry_points[ep], package)

\* C15: a do_pass invocation starts with an empty set of analysed modules and
\* at its first entry point; between the steps of one invocation the set
\* only grows and the pass class stays; a pass is begun for an entry point
\* only when the module name derived for it is non-empty and not in the set;
\* when the pass returns the set has grown by what the pass reported, the
\* entry module included, and the loop moves to the next entry point; passing
\* over an entry point leaves the set alone.  Hence no module name is the
\* entry module of two passes of one invocation.
C15_PerStageDedup ==
    /\ [][(pc \in {"idle", "loop", "terminal"} /\ pc' = "entry") =>
              (modules_analyzed' = {} /\ ep' = 1)]_vars
    /\ [][(pc \in {"entry", "run"} /\ pc' \in {"entry", "run"}) =>
              (modules_analyzed \subseteq modules_analyzed' /\ stage' = stage)]_vars
    /\ [][(pc = "entry" /\ pc' \in {"run", "raised"}) =>
              (EntryMod # <<"">> /\ EntryMod \notin modules_analyzed)]_vars
    /\ [][(pc = "run" /\ pc' = "entry") =>
              /\ EntryMod \in modules_analyzed'
              /\ \E reported \in Reports(EntryMod) :
                    modules_analyzed' = modules_analyzed \cup reported
              /\ ep' = ep + 1]_vars
    /\ [][(pc = "entry" /\ pc' = "entry") =>
              (modules_analyzed' = modules_analyzed /\ ep' = ep + 1)]_vars
    /\ []((pc = "run") => EntryMod \notin modules_analyzed)

\* an iteration of the loop is past both of two entry points that name the
\* same module after running one pass: the second was passed over
C15_Witness ==
    /\ stage = "post"
    /\ pc = "entry"
    /\ ep = 3
    /\ entry_points[1] = entry_points[2]
    /\ calls = <<>>
    /\ modules_analyzed = {GetModName(entry_points[1], package)}

\* the name the entry point's path has relative to root, in dotted form,
\* without the last component when the file is a package initializer
NameUnder(entry, root) ==
    LET rel == ToModName(RelPath(entry, root))
    IN  IF entry[Len(entry)] = "__init__" THEN Join(DropLast(rel, 1)) ELSE rel

\* C16: at every entry point the loop of do_pass is at, the module name
\* derived for it is the name of its path under the configured package, or
\* under the entry point's own directory when no package is configured, the
\* last component being dropped for a file named __init__ and for no other.
C16_ModuleNameDerivation ==
    (pc = "entry" /\ ep <= Len(entry_points)) =>
        LET entry == entry_points[ep]
        IN  EntryMod = NameUnder(entry, IF package = <<>>
                                        THEN DropLast(entry, 1)
                                        ELSE package[1])

\* C17: under interception, whenever a handle_import called for a declared
\* module loads a module (one already in sys.modules from an earlier load or
\* one the hook's loader is created for, named absolutely or relatively),
\* the import graph holds the edge from the current module to the loaded
\* module's name when the call is over.
C17_ImportEdgeOnLoad ==
    [][(nImports' = nImports + 1 /\ Intercepting /\ Declared
        /\ imCall'.loaded # <<>>) =>
            imCall'.loaded[1] \in import_graph'[current_module].imports]_vars

\* C18: once set_current_mod has named the module under analysis, no call
\* of handle_import raises, whatever its name and level; a call naming a
\* built-in root returns nothing and leaves the edge to the built-in; and a
\* call for a level larger than the current module has components returns
\* nothing and leaves the import graph alone.
C18_ImportFailuresNonFatal ==
    [][(nImports' = nImports + 1 /\ current_module \in CurrentMods) =>
            /\ ~imCall'.raised
            /\ imCall'.name[1] \in BuiltinNames =>
                   /\ imCall'.result = <<>>
                   /\ current_module \in DOMAIN import_graph'
                   /\ <<imCall'.name[1]>> \in import_graph'[current_module].imports
            /\ imCall'.level > Len(current_module) =>
                   (imCall'.result = <<>> /\ import_graph' = import_graph)]_vars

\* C19: no step removes a node of the import graph, changes the file of a
\* node or takes an edge from a node's imports, whether it is a load, a
\* set_current_mod, an install_hooks or a remove_hooks; and a create_node for
\* a name that has a node raises and leaves the whole graph as it was.
C19_NodesCreatedOnce ==
    /\ [][\A n \in DOMAIN import_graph :
              /\ n \in DOMAIN import_graph'
              /\ import_graph'[n].filename = import_graph[n].filename
              /\ import_graph[n].imports \subseteq import_graph'[n].imports]_vars
    /\ [][(imCall'.op = "create_node" /\ imCall' # imCall
           /\ imCall'.name \in DOMAIN import_graph) =>
              (imCall'.raised /\ import_graph' = import_graph)]_vars
    /\ []((imCall.op = "create_node" /\ ~imCall.raised) =>
              imCall.name \in DOMAIN import_graph)

\* create_node has just raised for a module that has a node with an edge in
\* its imports, after the hooks were installed and removed again
C19_Witness ==
    /\ imCall.op = "create_node"
    /\ imCall.raised
    /\ imCall.name \in DOMAIN import_graph
    /\ import_graph[imCall.name].imports # {}
    /\ old_path_hooks # <<>>
    /\ installPending = FALSE
    /\ nImports > 0

\* C20: after any sequence of add_node and add_edge calls, every node's
\* module in the extended record's metadata is the module the registry holds
\* for it.
C20_ModuleRecordsAgree ==
    \A n \in DOMAIN cg_extended :
        /\ n \in DOMAIN modnames
        /\ cg_extended[n].meta.modname = modnames[n]

\* C21: after any sequence of add_node and add_edge calls, cg, cg_extended
\* and modnames have the same keys; every destination in an adjacency set
\* is a key; for every source the destinations of its provenance log are
\* exactly its adjacency set; and get_edges() lists every (source,
\* destination) pair of the adjacency map once and nothing else.
C21_StructuralInvariant ==
    /\ DOMAIN cg = DOMAIN cg_extended
    /\ DOMAIN cg = DOMAIN modnames
    /\ \A src \in DOMAIN cg :
          /\ cg[src] \subseteq DOMAIN cg
          /\ {cg_extended[src].dsts[i].dst : i \in 1..Len(cg_extended[src].dsts)}
                 = cg[src]
    /\ LET edges == GetEdges(Graph)
       IN  /\ \A src \in DOMAIN cg : \A dst \in cg[src] :
                 Cardinality({i \in 1..Len(edges) : edges[i] = <<src, dst>>}) = 1
           /\ \A i \in 1..Len(edges) :
                 edges[i][1] \in DOMAIN cg /\ edges[i][2] \in cg[edges[i][1]]

\* one edge added twice with different line numbers, to a destination that
\* is another node: two log records, one pair in the edge list
C21_Witness ==
    \E src \in DOMAIN cg, dst \in DOMAIN cg :
        /\ src # dst
        /\ Len(cg_extended[src].dsts) = 2
        /\ cg_extended[src].dsts[1].dst = dst
        /\ cg_extended[src].dsts[2].dst = dst
        /\ cg_extended[src].dsts[1].lineno # cg_extended[src].dsts[2].lineno
        /\ GetEdges(Graph) = << <<src, dst>> >>

\* C22: a call of add_node or add_edge that raises because a name is empty
\* or not a string leaves cg, cg_extended and modnames as they were.
C22_ErrorsLeaveGraphUnchanged ==
    [][\A src \in NameArgs, dest \in NameArgs, mod \in EdgeModArgs :
          /\ (AddNodeRaises(src) /\ AddNode(src, mod)) =>
                 UNCHANGED <<cg, cg_extended, modnames>>
          /\ ((AddNodeRaises(src) \/ AddNodeRaises(dest))
              /\ AddEdge(src, dest, -1, mod, "e")) =>
                 UNCHANGED <<cg, cg_extended, modnames>>]_vars

====
